---- MODULE Spec2Model ----
(***************************************************************************)
(* Model of scripts/run_technical_analysis.py: the batch run `main` over   *)
(* the price files of PRICE_DIR, the loader, the TA-Lib / PyNance pipeline *)
(* and the latest-row summary.                                             *)
(*                                                                         *)
(* A frame is a record [columns, index, data]: the ordered column names,   *)
(* the Date index and, per column, one cell per row.  A cell is NaN, an    *)
(* exact rational <<num, den>> (prices, simple moving averages, growth) or *)
(* AnyFloat, a finite float whose value the model does not track (the      *)
(* recursively smoothed indicators and the rolling standard deviation, for *)
(* which only definedness and NaN propagation are modelled).               *)
(***************************************************************************)
EXTENDS Integers, Sequences, FiniteSets, TLC

VARIABLES
    files,          \* stems of the *.csv files of PRICE_DIR
    todo,           \* stems the glob iterator has not yielded yet
    pc,             \* position of main
    ticker,         \* main's local `ticker`
    heap,           \* the DataFrame objects alive in the current iteration
    df,             \* main's local `df`: a reference into heap (0 = unbound)
    summaries,      \* main's local `summaries`
    enriched_files, \* tickers whose <ticker>_technicals.csv exists in TECH_DIR
    figures,        \* tickers whose figure exists in FIG_DIR
    summary_file,   \* <<>> until technical_summary.csv is written, then <<table>>
    error           \* the exception that ended main, "none" otherwise

vars == <<files, todo, pc, ticker, heap, df, summaries, enriched_files, figures,
          summary_file, error>>

----------------------------------------------------------------------------
(* Bounds of the model and the periods the source hard-codes.              *)

MaxRows == 51

SMA_PERIOD == 20
EMA_PERIOD == 50
RSI_PERIOD == 14
MACD_FAST == 12
MACD_SLOW == 26
MACD_SIGNAL_PERIOD == 9
ATR_PERIOD == 14
GROWTH_SESSIONS == 5
VOL_WINDOW == 20
MOVAVE_WINDOW == 10

----------------------------------------------------------------------------
(* Cells and exact arithmetic.                                             *)

NaN == <<>>
AnyFloat == <<1, 0>>
Num(n) == <<n, 1>>
IsNaN(x) == x = NaN

Abs(n) == IF n < 0 THEN -n ELSE n

RECURSIVE GCD(_, _)
GCD(a, b) == IF b = 0 THEN a ELSE GCD(b, a % b)

Norm(n, d) ==
    LET g == GCD(Abs(n), d) IN <<n \div g, d \div g>>

RAdd(a, b) ==
    IF IsNaN(a) \/ IsNaN(b) THEN NaN
    ELSE Norm(a[1] * b[2] + b[1] * a[2], a[2] * b[2])

RSub(a, b) ==
    IF IsNaN(a) \/ IsNaN(b) THEN NaN
    ELSE Norm(a[1] * b[2] - b[1] * a[2], a[2] * b[2])

RDivInt(a, k) ==
    IF IsNaN(a) THEN NaN ELSE Norm(a[1], a[2] * k)

\* a / b for positive prices b
RDiv(a, b) ==
    IF IsNaN(a) \/ IsNaN(b) THEN NaN ELSE Norm(a[1] * b[2], a[2] * b[1])

NaNs(k) == [i \in 1..k |-> NaN]

Min(a, b) == IF a < b THEN a ELSE b
Max(a, b) == IF a > b THEN a ELSE b

----------------------------------------------------------------------------
(* Frames.                                                                 *)

NUMERIC_COLS == <<"Open", "High", "Low", "Close", "Volume">>

SeqToSet(s) == {s[i] : i \in 1..Len(s)}

NRows(f) == Len(f.index)

\* A column assignment that always adds a column, as pd.concat would.
SetColumn_AlwaysAppend(f, name, values) ==
    [columns |-> Append(f.columns, name),
     index   |-> f.index,
     data    |-> [c \in SeqToSet(f.columns) \cup {name} |->
                     IF c = name THEN values ELSE f.data[c]]]

\* df[name] = values: an existing column is replaced in place, a new one is
\* appended after the last column.
SetColumn(f, name, values) ==
    [columns |-> IF name \in SeqToSet(f.columns) THEN f.columns
                 ELSE Append(f.columns, name),
     index   |-> f.index,
     data    |-> [c \in SeqToSet(f.columns) \cup {name} |->
                     IF c = name THEN values ELSE f.data[c]]]

\* The rows of f at the positions `keep` (increasing), all columns.
TakeRows(f, keep) ==
    [columns |-> f.columns,
     index   |-> [i \in 1..Len(keep) |-> f.index[keep[i]]],
     data    |-> [c \in SeqToSet(f.columns) |->
                     [i \in 1..Len(keep) |-> f.data[c][keep[i]]]]]

RECURSIVE Positions(_, _, _)
\* The positions i..n, in order, at which Keep holds.
Positions(keepSet, i, n) ==
    IF i > n THEN <<>>
    ELSE IF i \in keepSet THEN <<i>> \o Positions(keepSet, i + 1, n)
         ELSE Positions(keepSet, i + 1, n)

\* DataFrame.dropna(subset=cols): drop every row with a NaN in one of cols.
dropna(f, cols) ==
    TakeRows(f, Positions({i \in 1..NRows(f) : \A c \in cols : ~IsNaN(f.data[c][i])},
                          1, NRows(f)))

----------------------------------------------------------------------------
(* The price files: the CSV tables the run may find in PRICE_DIR.          *)

\* A CSV field: a numeral, or text that is no number (empty, "n/a").
Numeral(n) == [numeric |-> TRUE, value |-> n]
NotNumeric == [numeric |-> FALSE, value |-> 0]

\* The close of the session `age` sessions before the newest one.
ClosePrice(age) == 300 - 2 * age + ((age * age) % 7)

\* Row i of a clean table of n rows: the histories end on the same session
\* and reach back n rows.
CleanRow(n, i) ==
    [Date   |-> i,
     Open   |-> Numeral(ClosePrice(n - i) - 1),
     High   |-> Numeral(ClosePrice(n - i) + 2),
     Low    |-> Numeral(ClosePrice(n - i) - 2),
     Close  |-> Numeral(ClosePrice(n - i)),
     Volume |-> Numeral(1000 + n - i)]

MissingField == {"Open", "High", "Low", "Close", "Volume"}
Defects == MissingField \cup {"none", "dup", "unsorted"}

\* Row p of a table of n rows with the defect applied: a field that is not a
\* number, the date of the neighbouring row, or a date out of file order.
DefectRow(n, defect, p) ==
    IF defect \in MissingField THEN [CleanRow(n, p) EXCEPT ![defect] = NotNumeric]
    ELSE IF defect = "dup"
         THEN [CleanRow(n, p) EXCEPT !.Date = IF p > 1 THEN p - 1 ELSE p + 1]
    ELSE IF defect = "unsorted"
         THEN [CleanRow(n, p) EXCEPT !.Date = IF p > 1 THEN 0 ELSE n + 1]
    ELSE CleanRow(n, p)

RawTable(n, defect, p) ==
    [i \in 1..n |-> IF i = p THEN DefectRow(n, defect, p) ELSE CleanRow(n, i)]

\* The lengths at which defective tables are drawn: two rows, the shortest
\* table whose last two rows both carry a growth value, and the tables long
\* enough for every indicator.
ShortLengths == {2, GROWTH_SESSIONS + 2}
DefectLengths == ShortLengths \cup (EMA_PERIOD..MaxRows)

\* The tables a price file may hold: a clean table of any length up to
\* MaxRows, or a table with one defective row: a missing field in the last
\* row, a missing High in the first row, or (short tables) a duplicated or
\* out-of-order date in the first or the last row.
Tables ==
    {RawTable(n, "none", 0) : n \in 0..MaxRows}
    \cup UNION {{RawTable(n, d, n) : d \in MissingField} : n \in DefectLengths}
    \cup {RawTable(n, "High", 1) : n \in DefectLengths}
    \cup UNION {{RawTable(n, d, p) : d \in {"dup", "unsorted"}, p \in {1, n}} :
                  n \in ShortLengths}

\* str.upper() on the file stems the model uses.
Stems == {"aapl", "AAPL", "msft"}
upper(stem) == CASE stem = "aapl" -> "AAPL"
                 [] stem = "AAPL" -> "AAPL"
                 [] stem = "msft" -> "MSFT"

----------------------------------------------------------------------------
(* load_price_data                                                         *)

\* pd.to_numeric(errors="coerce") on one field.
to_numeric(field) == IF field.numeric THEN Num(field.value) ELSE NaN

\* Position of raw row i after sort_values("Date"); rows with equal dates keep
\* their file order.
SortRank(raw, i) ==
    1 + Cardinality({j \in 1..Len(raw) :
                        \/ raw[j].Date < raw[i].Date
                        \/ raw[j].Date = raw[i].Date /\ j < i})

sort_values(raw) ==
    LET rank == [i \in 1..Len(raw) |-> SortRank(raw, i)]
    IN  [p \in 1..Len(raw) |-> raw[CHOOSE i \in 1..Len(raw) : rank[i] = p]]

load_price_data(raw) ==
    LET sorted == sort_values(raw)
        frame  == [columns |-> NUMERIC_COLS,
                   index   |-> [i \in 1..Len(sorted) |-> sorted[i].Date],
                   data    |-> [c \in SeqToSet(NUMERIC_COLS) |->
                                   [i \in 1..Len(sorted) |-> to_numeric(sorted[i][c])]]]
    IN  dropna(frame, {"Close"})

\* The frames load_price_data returns for the tables a file may hold.
LoadedFrames == {load_price_data(raw) : raw \in Tables}


----------------------------------------------------------------------------
(* TA-Lib, as called by compute_talib_indicators.  Positions are 1-based.  *)

\* The wrapper's begin index: the first row at which every input is a number,
\* the last row when there is none.
check_begidx(inputs, n) ==
    LET good == {i \in 1..n : \A k \in 1..Len(inputs) : ~IsNaN(inputs[k][i])}
    IN  IF good = {} THEN n ELSE CHOOSE i \in good : \A j \in good : i <= j

RECURSIVE SumRange(_, _, _)
\* real[from] + ... + real[to], accumulated left to right.
SumRange(real, from, to) ==
    IF from > to THEN Num(0)
    ELSE RAdd(SumRange(real, from, to - 1), real[to])

RECURSIVE TA_INT_SMA(_, _, _, _, _)
\* SMA's loop, `out` holding the rows before today: add today's value to the
\* running total, emit total / period, drop the trailing value.
TA_INT_SMA(real, period, trailingIdx, periodTotal, out) ==
    IF Len(out) >= Len(real) THEN out
    ELSE LET today    == Len(out) + 1
             tempReal == RAdd(periodTotal, real[today])
         IN  TA_INT_SMA(real, period, trailingIdx + 1,
                        RSub(tempReal, real[trailingIdx]),
                        Append(out, RDivInt(tempReal, period)))

\* An SMA whose lookback is the period instead of the period less one.
ta_SMA_LongLookback(real, timeperiod) ==
    LET n        == Len(real)
        begidx   == check_begidx(<<real>>, n)
        startIdx == begidx + timeperiod
    IN  IF startIdx > n THEN NaNs(n)
        ELSE TA_INT_SMA(real, timeperiod, begidx + 1,
                        SumRange(real, begidx + 1, startIdx - 1), NaNs(startIdx - 1))

\* ta.SMA(real, timeperiod): NaN up to the lookback, then the running mean.
ta_SMA(real, timeperiod) ==
    LET n        == Len(real)
        begidx   == check_begidx(<<real>>, n)
        startIdx == begidx + (timeperiod - 1)
    IN  IF startIdx > n THEN NaNs(n)
        ELSE TA_INT_SMA(real, timeperiod, begidx,
                        SumRange(real, begidx, startIdx - 1), NaNs(startIdx - 1))

\* A recursively smoothed output over one input (EMA, RSI, MACD): NaN up to
\* the lookback; from there every value depends on the whole history since the
\* begin index, so a NaN in it makes the value NaN.
Smoothed(real, lookback) ==
    LET n      == Len(real)
        begidx == check_begidx(<<real>>, n)
        bad    == {j \in begidx..n : IsNaN(real[j])}
    IN  [i \in 1..n |->
            IF i >= begidx + lookback /\ \A j \in bad : i < j
            THEN AnyFloat ELSE NaN]

ta_EMA(real, timeperiod) == Smoothed(real, timeperiod - 1)

ta_RSI(real, timeperiod) == Smoothed(real, timeperiod)

\* ta.MACD: the three outputs start at the same row, slow-1 + signal-1 rows
\* after the begin index.
ta_MACD(real, fastperiod, slowperiod, signalperiod) ==
    LET out == Smoothed(real, (Max(fastperiod, slowperiod) - 1) + (signalperiod - 1))
    IN  <<out, out, out>>

\* ta.ATR: the true range of row j reads high[j], low[j] and close[j-1]; the
\* first true range is that of the row after the begin index, and the Wilder
\* average of timeperiod true ranges seeds the output.
ta_ATR(high, low, close, timeperiod) ==
    LET n      == Len(close)
        begidx == check_begidx(<<high, low, close>>, n)
        bad    == {j \in (begidx + 1)..n :
                      IsNaN(high[j]) \/ IsNaN(low[j]) \/ IsNaN(close[j - 1])}
    IN  [i \in 1..n |->
            IF i >= begidx + timeperiod /\ \A j \in bad : i < j
            THEN AnyFloat ELSE NaN]

----------------------------------------------------------------------------
(* compute_talib_indicators: writes seven columns into the frame it is     *)
(* given and returns that frame.                                           *)

compute_talib_indicators(f) ==
    LET close == f.data["Close"]
        macd  == ta_MACD(close, MACD_FAST, MACD_SLOW, MACD_SIGNAL_PERIOD)
        f1 == SetColumn(f,  "SMA_20", ta_SMA(close, SMA_PERIOD))
        f2 == SetColumn(f1, "EMA_50", ta_EMA(close, EMA_PERIOD))
        f3 == SetColumn(f2, "RSI_14", ta_RSI(close, RSI_PERIOD))
        f4 == SetColumn(f3, "MACD", macd[1])
        f5 == SetColumn(f4, "MACD_SIGNAL", macd[2])
        f6 == SetColumn(f5, "MACD_HIST", macd[3])
    IN  SetColumn(f6, "ATR_14",
                  ta_ATR(f.data["High"], f.data["Low"], close, ATR_PERIOD))

----------------------------------------------------------------------------
(* PyNance, as called by compute_pynance_metrics.  Each function returns a *)
(* one-column frame [index, values].                                       *)

\* pynance.tech.simple.growth: values[n:] / values[:-n], indexed by index[n:].
pn_growth(index, values, n_sessions) ==
    LET size == Len(values)
        m    == Max(size - n_sessions, 0)
    IN  [index  |-> [i \in 1..m |-> index[i + n_sessions]],
         values |-> [i \in 1..m |-> RDiv(values[i + n_sessions], values[i])]]

RECURSIVE roll(_, _, _, _, _)
\* pandas' rolling mean, min_periods = window, `out` holding the rows before
\* row i: add the entering value, remove the leaving one, emit sum / nobs
\* once `window` numbers are inside.
roll(values, window, nobs, sum, out) ==
    IF Len(out) >= Len(values) THEN out
    ELSE LET i     == Len(out) + 1
             enter == values[i]
             nobs1 == IF IsNaN(enter) THEN nobs ELSE nobs + 1
             sum1  == IF IsNaN(enter) THEN sum ELSE RAdd(sum, enter)
             leave == IF i > window THEN values[i - window] ELSE NaN
             nobs2 == IF IsNaN(leave) THEN nobs1 ELSE nobs1 - 1
             sum2  == IF IsNaN(leave) THEN sum1 ELSE RSub(sum1, leave)
         IN  roll(values, window, nobs2, sum2,
                  Append(out, IF nobs2 >= window THEN RDivInt(sum2, nobs2) ELSE NaN))

rolling_mean(values, window) == roll(values, window, 0, Num(0), <<>>)

\* rolling(window).std(): a number wherever the window is full.
rolling_std(values, window) ==
    LET m == rolling_mean(values, window)
    IN  [i \in 1..Len(values) |-> IF IsNaN(m[i]) THEN NaN ELSE AnyFloat]

\* pynance.tech.movave.volatility and .sma: same index as the input.
pn_volatility(index, values, window) ==
    [index |-> index, values |-> rolling_std(values, window)]

pn_sma(index, values, window) ==
    [index |-> index, values |-> rolling_mean(values, window)]

IsUnique(index) == Cardinality(SeqToSet(index)) = Len(index)

\* DataFrame.reindex(target) raises ValueError ("cannot reindex on an axis
\* with duplicate labels") when the frame's own index has duplicates and is
\* not the target itself.
reindex_raises(col, target) == col.index # target /\ ~IsUnique(col.index)

\* DataFrame.reindex(target): per target label, the value the frame holds
\* under that label, NaN when it holds none.
reindex(col, target) ==
    IF col.index = target THEN col.values
    ELSE [t \in 1..Len(target) |->
             IF \E j \in 1..Len(col.index) : col.index[j] = target[t]
             THEN col.values[CHOOSE j \in 1..Len(col.index) : col.index[j] = target[t]]
             ELSE NaN]

----------------------------------------------------------------------------
(* compute_pynance_metrics: writes three columns into the frame it is      *)
(* given and returns that frame; the first reindex may raise.              *)

pynance_raises(f) ==
    reindex_raises(pn_growth(f.index, f.data["Close"], GROWTH_SESSIONS), f.index)

compute_pynance_metrics(f) ==
    LET close     == f.data["Close"]
        growth_df == pn_growth(f.index, close, GROWTH_SESSIONS)
        vol_df    == pn_volatility(f.index, close, VOL_WINDOW)
        movave_df == pn_sma(f.index, close, MOVAVE_WINDOW)
        f1 == SetColumn(f,  "PN_GROWTH_5", reindex(growth_df, f.index))
        f2 == SetColumn(f1, "PN_VOL_20", reindex(vol_df, f.index))
    IN  SetColumn(f2, "PN_MOVAVE_10", reindex(movave_df, f.index))


----------------------------------------------------------------------------
(* summarize_metrics                                                       *)

\* The fields of the summary record and the columns they are read from.
TRACKED == <<"SMA_20", "EMA_50", "RSI_14", "MACD_HIST", "ATR_14",
             "PN_GROWTH_5", "PN_VOL_20">>

NoneValue == <<0, 0>>

\* A summary that takes the last row as it is, without dropna().
CompleteRows_NoDrop(f) == f

\* df.dropna(): the rows without a NaN in any column.
CompleteRows(f) == dropna(f, SeqToSet(f.columns))

\* df.dropna().iloc[-1] raises IndexError on an empty result.
summarize_raises(f) == NRows(CompleteRows(f)) = 0

\* Series.get(name): the value, None when the row has no such label.
get(f, name, i) == IF name \in SeqToSet(f.columns) THEN f.data[name][i] ELSE NoneValue

summarize_metrics(f, t) ==
    LET complete == CompleteRows(f)
        last     == NRows(complete)
    IN  [ticker      |-> t,
         close       |-> complete.data["Close"][last],
         sma_20      |-> get(complete, "SMA_20", last),
         ema_50      |-> get(complete, "EMA_50", last),
         rsi_14      |-> get(complete, "RSI_14", last),
         macd_hist   |-> get(complete, "MACD_HIST", last),
         atr_14      |-> get(complete, "ATR_14", last),
         pn_growth_5 |-> get(complete, "PN_GROWTH_5", last),
         pn_vol_20   |-> get(complete, "PN_VOL_20", last)]

\* pd.DataFrame(summaries).set_index("ticker"): one row per record, in list
\* order, labelled by the record's ticker.
set_index(records) ==
    [index |-> [i \in 1..Len(records) |-> records[i].ticker],
     rows  |-> records]

----------------------------------------------------------------------------
(* main                                                                    *)

Init ==
    /\ files \in SUBSET Stems
    /\ todo = files
    /\ pc = "loop"
    /\ ticker = ""
    /\ heap = <<>>
    /\ df = 0
    /\ summaries = <<>>
    /\ enriched_files = {}
    /\ figures = {}
    /\ summary_file = <<>>
    /\ error = "none"

\* for price_file in PRICE_DIR.glob("*.csv"): the iterator yields the files in
\* directory order, which is any order; the ticker is the upper-cased stem and
\* the file is loaded.
LoadNext ==
    /\ pc = "loop"
    /\ \E stem \in todo, loaded \in LoadedFrames :
          /\ todo' = todo \ {stem}
          /\ ticker' = upper(stem)
          /\ heap' = <<loaded>>
          /\ df' = 1
    /\ pc' = "talib"
    /\ UNCHANGED <<files, summaries, enriched_files, figures, summary_file, error>>

\* df = compute_talib_indicators(df): the object is changed in place and the
\* same object is returned.
ComputeTalib ==
    /\ pc = "talib"
    /\ heap' = [heap EXCEPT ![df] = compute_talib_indicators(heap[df])]
    /\ pc' = "pynance"
    /\ UNCHANGED <<files, todo, ticker, df, summaries, enriched_files, figures,
                   summary_file, error>>

\* df = compute_pynance_metrics(df)
ComputePynance ==
    /\ pc = "pynance"
    /\ IF pynance_raises(heap[df])
       THEN /\ pc' = "aborted"
            /\ error' = "ValueError"
            /\ UNCHANGED heap
       ELSE /\ heap' = [heap EXCEPT ![df] = compute_pynance_metrics(heap[df])]
            /\ pc' = "to_csv"
            /\ UNCHANGED error
    /\ UNCHANGED <<files, todo, ticker, df, summaries, enriched_files, figures,
                   summary_file>>

\* df.to_csv(TECH_DIR / f"{ticker}_technicals.csv")
WriteEnriched ==
    /\ pc = "to_csv"
    /\ enriched_files' = enriched_files \cup {ticker}
    /\ pc' = "summarize"
    /\ UNCHANGED <<files, todo, ticker, heap, df, summaries, figures, summary_file,
                   error>>

\* summaries.append(summarize_metrics(df, ticker))
Summarize ==
    /\ pc = "summarize"
    /\ IF summarize_raises(heap[df])
       THEN /\ pc' = "aborted"
            /\ error' = "IndexError"
            /\ UNCHANGED summaries
       ELSE /\ summaries' = Append(summaries, summarize_metrics(heap[df], ticker))
            /\ pc' = "plot"
            /\ UNCHANGED error
    /\ UNCHANGED <<files, todo, ticker, heap, df, enriched_files, figures,
                   summary_file>>

\* build_visualizations(df, ticker).  The frame is not read again after the
\* call (the next use of `df` is the assignment of the next iteration), so
\* the model drops it here.
BuildVisualizations ==
    /\ pc = "plot"
    /\ figures' = figures \cup {ticker}
    /\ heap' = <<>>
    /\ df' = 0
    /\ pc' = "loop"
    /\ UNCHANGED <<files, todo, ticker, summaries, enriched_files, summary_file,
                   error>>

\* WriteSummary without the loop's exit condition: the table is written while
\* the iterator still has files to yield.
WriteSummary_BeforeLoopEnds ==
    /\ pc = "loop"
    /\ IF summaries = <<>>
       THEN /\ pc' = "aborted"
            /\ error' = "KeyError"
            /\ UNCHANGED summary_file
       ELSE /\ summary_file' = <<set_index(summaries)>>
            /\ pc' = "done"
            /\ UNCHANGED error
    /\ UNCHANGED <<files, todo, ticker, heap, df, summaries, enriched_files, figures>>

\* After the loop: the summary table is built and written.  With no record,
\* the table has no "ticker" column and set_index raises KeyError.
WriteSummary ==
    /\ pc = "loop"
    /\ todo = {}
    /\ IF summaries = <<>>
       THEN /\ pc' = "aborted"
            /\ error' = "KeyError"
            /\ UNCHANGED summary_file
       ELSE /\ summary_file' = <<set_index(summaries)>>
            /\ pc' = "done"
            /\ UNCHANGED error
    /\ UNCHANGED <<files, todo, ticker, heap, df, summaries, enriched_files, figures>>

Next ==
    \/ LoadNext
    \/ ComputeTalib
    \/ ComputePynance
    \/ WriteEnriched
    \/ Summarize
    \/ BuildVisualizations
    \/ WriteSummary

Spec == Init /\ [][Next]_vars


----------------------------------------------------------------------------
(* Helpers of the properties.                                              *)

MaxWindow == 3

Frame == heap[df]

\* main has stopped: normally, or on an uncaught exception.
Stopped == pc \in {"done", "aborted"}

\* summarize_metrics has been called in the current iteration.
SummarizeCalled == pc = "plot" \/ (pc = "aborted" /\ error = "IndexError")

\* Both pipeline calls of the current iteration have just returned.
PipelineReturned == pc = "to_csv"

\* The rows of f in which every tracked indicator is a number.
TrackedRows(f) ==
    {i \in 1..NRows(f) : \A k \in 1..Len(TRACKED) : ~IsNaN(f.data[TRACKED[k]][i])}

Last(rows) == CHOOSE i \in rows : \A j \in rows : j <= i

\* The summary record that reads row i of f.
RowRecord(f, t, i) ==
    [ticker      |-> t,
     close       |-> f.data["Close"][i],
     sma_20      |-> f.data["SMA_20"][i],
     ema_50      |-> f.data["EMA_50"][i],
     rsi_14      |-> f.data["RSI_14"][i],
     macd_hist   |-> f.data["MACD_HIST"][i],
     atr_14      |-> f.data["ATR_14"][i],
     pn_growth_5 |-> f.data["PN_GROWTH_5"][i],
     pn_vol_20   |-> f.data["PN_VOL_20"][i]]

RecordValues(r) ==
    {r.close, r.sma_20, r.ema_50, r.rsi_14, r.macd_hist, r.atr_14,
     r.pn_growth_5, r.pn_vol_20}

\* Lexicographic order of the ticker keys.
TickerRank(t) == CASE t = "AAPL" -> 1 [] t = "MSFT" -> 2

RECURSIVE PrefixSums(_, _)
\* sums[i] = close[1] + ... + close[i]
PrefixSums(close, sums) ==
    IF Len(sums) >= Len(close) THEN sums
    ELSE PrefixSums(close,
                    Append(sums, RAdd(IF sums = <<>> THEN Num(0) ELSE sums[Len(sums)],
                                      close[Len(sums) + 1])))

\* The moving average the claim describes: k-1 sentinels, then at row i the
\* mean of close[i-k+1..i], the sum being that of close[1..i] less that of
\* close[1..i-k].
MeanColumn(close, k) ==
    LET sums == PrefixSums(close, <<>>)
    IN  [i \in 1..Len(close) |->
            IF i < k THEN NaN
            ELSE RDivInt(RSub(sums[i], IF i = k THEN Num(0) ELSE sums[i - k]), k)]

----------------------------------------------------------------------------
(* Properties.                                                             *)

\* C1: in a batch of several files, a ticker whose summary cannot be
\* extracted (NoCompleteRow, the IndexError of summarize_metrics) does not
\* abort the batch: when main has stopped, every file has been processed and
\* the summary table is written and lists exactly the tickers that were
\* summarized.
C1_BatchIsolatesTickerFailure ==
    (Stopped /\ Cardinality(files) >= 2 /\ error \in {"none", "IndexError"}) =>
        /\ todo = {}
        /\ summary_file # <<>>
        /\ summary_file[1].index = [k \in 1..Len(summaries) |-> summaries[k].ticker]

\* C2: whenever the enriched frame has a row in which all tracked indicators
\* are numbers, summarize_metrics succeeds and reports the latest such row,
\* whatever the other columns hold.
C2_SummaryIsLatestTrackedRow ==
    (SummarizeCalled /\ TrackedRows(Frame) # {}) =>
        /\ pc = "plot"
        /\ summaries[Len(summaries)] = RowRecord(Frame, ticker, Last(TrackedRows(Frame)))

\* C3: summarize_metrics returns a record only when the frame has a row in
\* which every tracked indicator is defined; otherwise it fails, and no
\* record collected ever holds a sentinel.
C3_NoSentinelSummary ==
    /\ \A k \in 1..Len(summaries) : NaN \notin RecordValues(summaries[k])
    /\ pc = "plot" => TrackedRows(Frame) # {}
    /\ (SummarizeCalled /\ TrackedRows(Frame) = {}) => (pc = "aborted" /\ error = "IndexError")

C3_Witness ==
    /\ pc = "aborted"
    /\ error = "IndexError"
    /\ NRows(Frame) = RSI_PERIOD
    /\ TrackedRows(Frame) = {}

\* C4: the written summary table has unique ticker keys, one row per ticker.
C4_SummaryKeysUnique ==
    summary_file # <<>> => IsUnique(summary_file[1].index)

\* C5: a pipeline call leaves the frame object it is given as it was and
\* returns a different object.
C5_PipelineKeepsInput ==
    [][(pc \in {"talib", "pynance"} /\ pc' # "aborted") =>
           (heap'[df] = heap[df] /\ df' # df)]_vars

\* C6: the pipeline never raises, and returns one cell per row in every
\* column, whatever the length of the series.
C6_PipelineNeverRaises ==
    /\ error # "ValueError"
    /\ PipelineReturned =>
          \A c \in SeqToSet(Frame.columns) : Len(Frame.data[c]) = NRows(Frame)

\* C7: running the pipeline again, on the frame it returned or on the price
\* columns of that frame, gives the same enriched frame.
C7_PipelineIdempotent ==
    PipelineReturned =>
        LET prices == [columns |-> NUMERIC_COLS,
                       index   |-> Frame.index,
                       data    |-> [c \in SeqToSet(NUMERIC_COLS) |-> Frame.data[c]]]
            again  == compute_talib_indicators(Frame)
            fresh  == compute_talib_indicators(prices)
        IN  /\ ~pynance_raises(again)
            /\ compute_pynance_metrics(again) = Frame
            /\ ~pynance_raises(fresh)
            /\ compute_pynance_metrics(fresh) = Frame

C7_Witness ==
    /\ pc = "to_csv"
    /\ NRows(Frame) >= EMA_PERIOD
    /\ ~IsNaN(Frame.data["EMA_50"][NRows(Frame)])

\* C8: the frame load_price_data returns has strictly increasing dates, one
\* cell per date in each of the five value columns and no missing Close.
C8_LoadedSeriesInvariant ==
    pc = "talib" =>
        /\ \A i \in 1..(NRows(Frame) - 1) : Frame.index[i] < Frame.index[i + 1]
        /\ \A c \in SeqToSet(NUMERIC_COLS) : Len(Frame.data[c]) = NRows(Frame)
        /\ \A i \in 1..NRows(Frame) : ~IsNaN(Frame.data["Close"][i])

\* C9: the rows of the written summary table are in ticker-key order.
C9_SummaryOrderedByTicker ==
    summary_file # <<>> =>
        LET index == summary_file[1].index
        IN  \A i \in 1..(Len(index) - 1) : TickerRank(index[i]) <= TickerRank(index[i + 1])

\* C10: SMA_20 and PN_MOVAVE_10 hold k-1 leading sentinels and then the mean
\* of the last k closes, row for row; the same holds of both moving averages
\* for every window up to MaxWindow.
C10_MovingAverages ==
    /\ pc = "pynance" =>
          Frame.data["SMA_20"] = MeanColumn(Frame.data["Close"], SMA_PERIOD)
    /\ PipelineReturned =>
          Frame.data["PN_MOVAVE_10"] = MeanColumn(Frame.data["Close"], MOVAVE_WINDOW)
    /\ pc = "pynance" =>
          \A k \in 1..MaxWindow :
             /\ ta_SMA(Frame.data["Close"], k) = MeanColumn(Frame.data["Close"], k)
             /\ pn_sma(Frame.index, Frame.data["Close"], k).values
                   = MeanColumn(Frame.data["Close"], k)

C10_Witness ==
    /\ pc = "to_csv"
    /\ NRows(Frame) = SMA_PERIOD
    /\ ~IsNaN(Frame.data["SMA_20"][SMA_PERIOD])
    /\ IsNaN(Frame.data["SMA_20"][SMA_PERIOD - 1])
    /\ ~IsNaN(Frame.data["PN_MOVAVE_10"][MOVAVE_WINDOW])
    /\ IsNaN(Frame.data["PN_MOVAVE_10"][MOVAVE_WINDOW - 1])

\* The ticker keys of a set of file stems.
Tickers(stems) == {upper(stem) : stem \in stems}

\* C11: in every iteration the enriched file of the ticker is written by the
\* step just before its summary is extracted, and summaries are extracted by
\* no other step; the summary table is written only after the loop, when every
\* file has been loaded, computed, persisted, summarized and plotted; a run in
\* which a step has failed never has a summary table, while the enriched
\* files of all earlier tickers, and of the failing ticker when
\* summarize_metrics is the step that failed, are written.
C11_PersistenceOrdering ==
    /\ [][pc' = "summarize" =>
             (pc = "to_csv" /\ enriched_files' = enriched_files \cup {ticker})]_vars
    /\ [][(summaries' # summaries \/ (error = "none" /\ error' = "IndexError")) =>
             (pc = "summarize" /\ enriched_files' = enriched_files)]_vars
    /\ [][summary_file' # summary_file =>
             /\ pc = "loop" /\ todo = {} /\ error = "none"
             /\ Len(summaries) = Cardinality(files)
             /\ enriched_files = Tickers(files)
             /\ figures = Tickers(files)
             /\ pc' = "done"]_vars
    /\ [](pc \in {"summarize", "plot"} => ticker \in enriched_files)
    /\ [](error # "none" => summary_file = <<>>)
    /\ []((pc = "aborted" /\ error \in {"ValueError", "IndexError"}) =>
             /\ figures \subseteq enriched_files
             /\ \A stem \in files \ todo :
                    upper(stem) # ticker => upper(stem) \in enriched_files
             /\ error = "IndexError" => ticker \in enriched_files)

C11_Witness ==
    /\ pc = "aborted"
    /\ error = "IndexError"
    /\ figures # {}
    /\ ticker \notin figures
    /\ enriched_files = figures \cup {ticker}
    /\ summaries # <<>>
    /\ summary_file = <<>>

====
